---- MODULE Spec2Model ----
(***************************************************************************)
(* Moderation / access-control state machine, ban-expiry check, likes,     *)
(* comments, gallery and login upsert of the WikiProfile server            *)
(* (server/storage.ts, shared schema and the route handlers of             *)
(* registerRoutes).                                                        *)
(*                                                                         *)
(* The relational store is modelled by its tables (partial functions from  *)
(* primary key to row).  Every route handler is an action; a handler that  *)
(* awaits more than one store call is split at the awaits, its locals      *)
(* being kept in procs[p], so that requests interleave as they do on the   *)
(* server.  resp is the response sent by the step just taken (NoResp when  *)
(* the step sent none).                                                    *)
(*                                                                         *)
(* Not modelled: createdAt / updatedAt columns, imageUrl (an opaque        *)
(* nullable string handled like description), result ordering.             *)
(***************************************************************************)
EXTENDS Integers, Sequences, FiniteSets, TLC

VARIABLES
    users,        \* table users: id -> row
    entries,      \* table wiki_entries: id -> row
    nextEntryId,  \* ids handed out so far (gen_random_uuid never repeats)
    likes,        \* table likes: <<entryId, userId>> -> number of rows
    likesUnique,  \* whether the deployed likes table carries UNIQUE(entry_id, user_id)
    now,          \* the clock read by new Date() / Date.now()
    comments,     \* table comments: id -> row
    reports,      \* table content_reports: id -> row
    images,       \* table user_images: id -> row
    serial,       \* rows inserted so far into comments, reports, images (ids never repeat)
    procs,        \* in-flight requests: locals of handlers suspended at an await
    resp          \* response sent by the last step

\* the tables hanging off users and entries besides likes
dependents == <<comments, reports, images, serial>>

vars == <<users, entries, nextEntryId, likes, likesUnique, dependents, now, procs, resp>>

(***************************** bounds **************************************)
\* ids the store can hand out
MaxEntries == 2
\* entries posted in the moderation workflow / the access specification
WorkflowEntries == 1
AccessEntries == 1
LikeEntries == 1
CascadeEntries == 1
AdminEntries == 2
\* rows inserted into each of comments, content_reports, user_images
MaxRows == 1
\* entries, and rows of each of comments and user_images, in the comment and gallery specifications
ContentEntries == 1
ContentRows == 2
\* owner requests on entries suspended at an await at one time
MaxEntryRequests == 1
\* like requests / ban checks in flight at one time
NumProcs == 2
MaxSeed == 2
MaxTime == 3
MaxHours == 2

(************************** program constants ******************************)
TokenBytes == 32

UserIds == {"u1", "u2", "u3"}
\* the users who post entries
Authors == {"u1"}
Anonymous == "anon"
Callers == UserIds \cup {Anonymous}
EntryIds == 1..MaxEntries
\* ids a request may name: the first k ids the store hands out and one it never does
RequestIds(k) == 0..k
Procs == 1..NumProcs
EntryProcs == 1..MaxEntryRequests

(******************************* values ************************************)
\* JavaScript / SQL string values: undefined, null, or a string known by its
\* length and by which string of that length it is.
Undefined == [kind |-> "undefined", seed |-> 0, len |-> 0]
Null == [kind |-> "null", seed |-> 0, len |-> 0]
Str(seed, len) == [kind |-> "string", seed |-> seed, len |-> len]
EmptyStr == Str(0, 0)
\* !v for a string-or-nothing value
Falsy(v) == v.kind # "string" \/ v.len = 0

\* Date values: undefined (no argument), null (empty column), or an instant.
NoDate == [kind |-> "undefined", t |-> 0]
NullDate == [kind |-> "null", t |-> 0]
DateAt(t) == [kind |-> "date", t |-> t]

EmptyRec == [x \in {} |-> x]
\* { ...a, ...b }: keys of b win
Spread(a, b) == [f \in (DOMAIN a) \cup (DOMAIN b) |-> IF f \in DOMAIN b THEN b[f] ELSE a[f]]
Pick(r, fields) == [f \in (DOMAIN r) \cap fields |-> r[f]]
Options(f, vals) == {EmptyRec} \cup {f :> v : v \in vals}
Combine(A, B) == {Spread(a, b) : a \in A, b \in B}

StatusEnum == {"approved", "pending", "rejected"}
VerificationEnum == {"verified", "fake", "unknown"}
RoleEnum == {"user", "moderator", "admin"}
BadgeEnum == {"green_check", "red_check", "black_check", "none"}

NoResp == [op |-> "none"]
Idle == [op |-> "idle"]
\* A 2xx response and what it carries; a refusal carries its status code only.
Response(op, id, code, body) == [op |-> op, id |-> id, code |-> code, body |-> body]
\* A read served to caller c.
Served(op, c, id, body) == [op |-> op, caller |-> c, id |-> id, code |-> 200, body |-> body]
Refusal(op, code) == [op |-> op, code |-> code]
\* What a route addressed to an entry answers: who asked, for which id.
Answered(op, c, id, code, body) ==
    [op |-> op, caller |-> c, id |-> id, code |-> code, body |-> body]

(***************************** shared schema *******************************)
\* Column defaults of wiki_entries.
DefaultEntry(id) ==
    [id |-> id, status |-> "pending", verification |-> "unknown",
     isSpecial |-> FALSE, specialAccessToken |-> Null]

\* Columns of wiki_entries an insert may name.
EntryColumns ==
    {"id", "userId", "title", "description", "status", "verification",
     "isSpecial", "specialAccessToken"}
InsertFields == EntryColumns \ {"id"}
UpdateFields == EntryColumns \ {"id", "userId", "status"}
RequiredFields == {"userId", "title", "description"}

\* insertWikiEntrySchema.parse: unknown keys are stripped, notNull columns
\* without default are required.
insertWikiEntrySchema(body) ==
    IF RequiredFields \subseteq DOMAIN body
    THEN [ok |-> TRUE, data |-> Pick(body, InsertFields)]
    ELSE [ok |-> FALSE, data |-> EmptyRec]

\* updateWikiEntrySchema.parse: every field optional, unknown keys rejected.
updateWikiEntrySchema(body) ==
    IF DOMAIN body \subseteq UpdateFields
    THEN [ok |-> TRUE, data |-> body]
    ELSE [ok |-> FALSE, data |-> EmptyRec]

(******************************* storage ***********************************)
\* A select / returning() result is the sequence of matching rows; the
\* callers destructure its first element.
getUser(usrs, id) == IF id \in DOMAIN usrs THEN <<usrs[id]>> ELSE << >>

getEntry(ents, id) == IF id \in DOMAIN ents THEN <<ents[id]>> ELSE << >>

createEntry(ents, id, entryData) ==
    [i \in (DOMAIN ents) \cup {id} |->
        IF i = id THEN Spread(DefaultEntry(id), entryData) ELSE ents[i]]

updateEntry(ents, id, entryData) ==
    [i \in DOMAIN ents |-> IF i = id THEN Spread(ents[i], entryData) ELSE ents[i]]

\* moderateEntry leaving a rejected entry rejected.
moderateEntryRejectedFinal(ents, id, status) ==
    [i \in DOMAIN ents |->
        IF i = id /\ ents[i].status # "rejected" THEN [ents[i] EXCEPT !.status = status]
        ELSE ents[i]]

\* moderateEntry writing the verification default along with the status.
moderateEntryResetsVerification(ents, id, status) ==
    [i \in DOMAIN ents |->
        IF i = id THEN [ents[i] EXCEPT !.status = status, !.verification = "unknown"]
        ELSE ents[i]]

moderateEntry(ents, id, status) ==
    [i \in DOMAIN ents |-> IF i = id THEN [ents[i] EXCEPT !.status = status] ELSE ents[i]]

\* setEntryVerification sending the entry back to moderation.
setEntryVerificationResetsStatus(ents, id, verification) ==
    [i \in DOMAIN ents |->
        IF i = id THEN [ents[i] EXCEPT !.verification = verification, !.status = "pending"]
        ELSE ents[i]]

setEntryVerification(ents, id, verification) ==
    [i \in DOMAIN ents |->
        IF i = id THEN [ents[i] EXCEPT !.verification = verification] ELSE ents[i]]

deleteEntry(ents, id) == [i \in (DOMAIN ents) \ {id} |-> ents[i]]

\* likes.entry_id references wiki_entries.id on delete cascade
CascadeLikesOfEntry(lks, id) == [k \in DOMAIN lks |-> IF k[1] = id THEN 0 ELSE lks[k]]

\* wiki_entries.user_id referencing users.id without a delete rule.
RestrictEntriesOfUser(ents, userId) == ents
\* wiki_entries.user_id and likes.user_id reference users.id on delete cascade
CascadeEntriesOfUser(ents, userId) ==
    [i \in {j \in DOMAIN ents : ents[j].userId # userId} |-> ents[i]]
CascadeLikesOfUser(lks, ents, userId) ==
    [k \in DOMAIN lks |->
        IF k[2] = userId \/ (k[1] \in DOMAIN ents /\ ents[k[1]].userId = userId)
        THEN 0 ELSE lks[k]]

\* comments.entry_id / content_reports.entry_id reference wiki_entries.id on
\* delete cascade
CascadeRowsOfEntry(rows, id) == [r \in {q \in DOMAIN rows : rows[q].entryId # id} |-> rows[r]]
\* comments.user_id references users.id on delete cascade; so does the
\* entry a comment hangs on
CascadeCommentsOfUser(rows, ents, userId) ==
    [r \in {q \in DOMAIN rows :
                /\ rows[q].userId # userId
                /\ ~(rows[q].entryId \in DOMAIN ents /\ ents[rows[q].entryId].userId = userId)}
        |-> rows[r]]
\* content_reports.reporter_id references users.id on delete cascade
CascadeReportsOfUser(rows, ents, userId) ==
    [r \in {q \in DOMAIN rows :
                /\ rows[q].reporterId # userId
                /\ ~(rows[q].entryId \in DOMAIN ents /\ ents[rows[q].entryId].userId = userId)}
        |-> rows[r]]
\* user_images.user_id references users.id on delete cascade
CascadeImagesOfUser(imgs, userId) ==
    [r \in {q \in DOMAIN imgs : imgs[q].userId # userId} |-> imgs[r]]

\* insert ... returning: the new row gets a fresh id
InsertRow(rows, id, row) ==
    [r \in (DOMAIN rows) \cup {id} |-> IF r = id THEN Spread([id |-> id], row) ELSE rows[r]]

createComment(rows, id, comment) == InsertRow(rows, id, comment)
createReport(rows, id, reportData) == InsertRow(rows, id, Spread([status |-> "pending"], reportData))
addUserImage(rows, id, userId, imageUrl) == InsertRow(rows, id, [userId |-> userId, imageUrl |-> imageUrl])

deleteComment(rows, commentId) == [r \in (DOMAIN rows) \ {commentId} |-> rows[r]]

getUserImages(imgs, userId) == {imgs[r] : r \in {q \in DOMAIN imgs : imgs[q].userId = userId}}

deleteUserImage(imgs, imageId) == [r \in (DOMAIN imgs) \ {imageId} |-> imgs[r]]

\* banUser writing the reason and the term without raising the flag.
banUserFieldsOnly(usrs, userId, banReason, bannedUntil) ==
    [u \in DOMAIN usrs |->
        IF u = userId
        THEN [usrs[u] EXCEPT !.banReason = banReason,
                             !.bannedUntil = IF bannedUntil.kind = "date"
                                             THEN bannedUntil ELSE NullDate]
        ELSE usrs[u]]

banUser(usrs, userId, banReason, bannedUntil) ==
    [u \in DOMAIN usrs |->
        IF u = userId
        THEN [usrs[u] EXCEPT !.isBanned = TRUE, !.banReason = banReason,
                             !.bannedUntil = IF bannedUntil.kind = "date"
                                             THEN bannedUntil ELSE NullDate]
        ELSE usrs[u]]

\* unbanUser flipping the flag.
unbanUserFlip(usrs, userId) ==
    [u \in DOMAIN usrs |->
        IF u = userId
        THEN [usrs[u] EXCEPT !.isBanned = ~usrs[u].isBanned, !.banReason = Null,
                             !.bannedUntil = NullDate]
        ELSE usrs[u]]

\* unbanUser lowering the flag only.
unbanUserFlagOnly(usrs, userId) ==
    [u \in DOMAIN usrs |->
        IF u = userId THEN [usrs[u] EXCEPT !.isBanned = FALSE] ELSE usrs[u]]

unbanUser(usrs, userId) ==
    [u \in DOMAIN usrs |->
        IF u = userId
        THEN [usrs[u] EXCEPT !.isBanned = FALSE, !.banReason = Null, !.bannedUntil = NullDate]
        ELSE usrs[u]]

updateUserRole(usrs, userId, role) ==
    [u \in DOMAIN usrs |-> IF u = userId THEN [usrs[u] EXCEPT !.role = role] ELSE usrs[u]]

setUserBadge(usrs, userId, badge) ==
    [u \in DOMAIN usrs |-> IF u = userId THEN [usrs[u] EXCEPT !.badge = badge] ELSE usrs[u]]

deleteUser(usrs, userId) == [u \in (DOMAIN usrs) \ {userId} |-> usrs[u]]

userLikesEntry(lks, entryId, userId) ==
    <<entryId, userId>> \in DOMAIN lks /\ lks[<<entryId, userId>>] > 0

createLike(lks, like) ==
    [k \in DOMAIN lks |-> IF k = <<like.entryId, like.userId>> THEN lks[k] + 1 ELSE lks[k]]

removeLike(lks, entryId, userId) ==
    [k \in DOMAIN lks |-> IF k = <<entryId, userId>> THEN 0 ELSE lks[k]]

\* The listing without its filter on status.
getJoinedEntries(ents, usrs) ==
    {Spread(ents[i], [user |-> usrs[ents[i].userId]]) :
        i \in {j \in DOMAIN ents : ents[j].userId \in DOMAIN usrs}}

getApprovedEntries(ents, usrs) ==
    {Spread(ents[i], [user |-> usrs[ents[i].userId]]) :
        i \in {j \in DOMAIN ents : ents[j].status = "approved" /\ ents[j].userId \in DOMAIN usrs}}

getUserProfile(usrs, ents, userId) ==
    IF userId \notin DOMAIN usrs THEN << >>
    ELSE <<Spread(usrs[userId],
                  [wikiEntries |-> {ents[i] : i \in {j \in DOMAIN ents : ents[j].userId = userId}}])>>

\* getSpecialPost comparing the tokens without asking for a token first.
getSpecialPostComparesOnly(ents, entryId, token) ==
    LET found == getEntry(ents, entryId)
    IN IF found = << >> THEN << >>
       ELSE IF found[1].isSpecial /\ token # found[1].specialAccessToken
            THEN << >>
            ELSE found

getSpecialPost(ents, entryId, token) ==
    LET found == getEntry(ents, entryId)
    IN IF found = << >> THEN << >>
       ELSE IF found[1].isSpecial /\ (Falsy(token) \/ token # found[1].specialAccessToken)
            THEN << >>
            ELSE found

(****************************** middleware *********************************)
\* isAuthenticated: the session names a user.
isAuthenticated(usrs, c) == c \in DOMAIN usrs

\* isAdmin: the caller holds the admin / moderator capability.
isAdmin(usrs, c) ==
    /\ c \in DOMAIN usrs
    /\ (usrs[c].isAdmin \/ usrs[c].role \in {"admin", "moderator"})

(******************************* inputs ************************************)
\* Request bodies of POST /api/entries.
CreateBodies ==
    Combine(Combine(Options("title", {"t1"}), {[description |-> "d1"]}),
            Combine(Options("status", {"approved"}), Options("verification", {"verified"})))

\* Request bodies of PATCH /api/entries/:id; userId is a key the schema rejects.
EditBodies ==
    {EmptyRec, [title |-> "t2"], [title |-> "t2", status |-> "approved"], [userId |-> "u3"],
     [verification |-> "verified"]}

\* status / verification values an admin request may carry
ModerateInputs == StatusEnum \cup {"bogus"}
VerifyInputs == {"verified", "unknown", "bogus"}

\* role / badge values an admin request may carry, and the users it may name
RoleInputs == RoleEnum \cup {"bogus"}
BadgeInputs == {"green_check", "none", "bogus"}
AdminTargets == {"u2", "u0"}

\* Request bodies of PATCH /api/entries/:id/special.
SpecialBodies == Options("isSpecial", {TRUE, FALSE})

\* Tokens a caller may put in ?token=.
QueryTokens == {Undefined, EmptyStr} \cup {Str(s, 2 * TokenBytes) : s \in 1..MaxSeed}

\* Request bodies of POST /api/entries that name the special-access columns.
AccessCreateBodies ==
    Combine({[title |-> "t1", description |-> "d1"]},
            Combine(Options("isSpecial", {TRUE}), Options("specialAccessToken", {EmptyStr})))

\* Request bodies of POST /api/admin/users/:userId/ban.
BanBodies ==
    Combine(Options("reason", {EmptyStr, Str(1, 1)}), Options("hours", 0..MaxHours))

\* The users a ban request or a ban check may name; u0 never registered.
BanTargets == {"u1", "u0"}

\* Request bodies of POST /api/likes.
LikeBodies(k) == Options("entryId", RequestIds(k))

\* Request bodies of POST /api/comments, POST /api/reports, POST /api/user/gallery.
CommentBodies(k) == Combine(Options("entryId", RequestIds(k)), Options("content", {"c1"}))
ReportBodies(k) == Combine(Options("entryId", RequestIds(k)), Options("reason", {"spam"}))
ImageBodies == Options("imageUrl", {"i1"})

\* Request bodies of POST /api/entries: a plain entry, and one posted as
\* special with a token of the author's choice.
AdminCreateBodies ==
    {[title |-> "t1", description |-> "d1"],
     [title |-> "t2", description |-> "d1", isSpecial |-> TRUE,
      specialAccessToken |-> Str(1, 2 * TokenBytes)]}

\* randomBytes(n): n bytes, seed telling which; toString('hex'): two digits a byte.
randomBytes(n, seed) == [bytes |-> n, seed |-> seed]
\* an encoding writing one character a byte
toLatin1(buf) == Str(buf.seed, buf.bytes)
toHex(buf) == Str(buf.seed, 2 * buf.bytes)

(***************************** processes ***********************************)
\* A request is taken up by the lowest free slot.
Free(p) == procs[p] = Idle /\ \A q \in Procs : q < p => procs[q] # Idle

Send(r) == resp' = r
Keep(p) == procs' = procs
Suspend(p, locals) == procs' = [procs EXCEPT ![p] = locals]
Finish(p) == procs' = [procs EXCEPT ![p] = Idle]

(***************************** entry routes ********************************)
\* POST /api/entries
CreateEntryRoute(c, body) ==
    LET parsed == insertWikiEntrySchema(Spread(body, [userId |-> c]))
        id == nextEntryId
    IN /\ IF ~isAuthenticated(users, c)
          THEN Send(Refusal("createEntry", 401)) /\ UNCHANGED <<entries, nextEntryId>>
          ELSE IF ~parsed.ok
          THEN Send(Refusal("createEntry", 400)) /\ UNCHANGED <<entries, nextEntryId>>
          ELSE /\ entries' = createEntry(entries, id, parsed.data)
               /\ nextEntryId' = id + 1
               /\ Send(Response("createEntry", id, 201, getEntry(entries', id)))
       /\ UNCHANGED <<users, likes, likesUnique, dependents, now, procs>>

\* GET /api/entries/approved
ApprovedRoute(c) ==
    /\ Send(Served("approved", c, 0, getApprovedEntries(entries, users)))
    /\ UNCHANGED <<users, entries, nextEntryId, likes, likesUnique, dependents, now, procs>>

\* GET /api/entries/:id
GetEntryRoute(c, id) ==
    LET entry == getEntry(entries, id)
    IN /\ IF ~isAuthenticated(users, c)
          THEN Send(Refusal("getEntry", 401))
          ELSE IF entry = << >>
          THEN Send(Refusal("getEntry", 404))
          ELSE Send(Served("getEntry", c, id, entry))
       /\ UNCHANGED <<users, entries, nextEntryId, likes, likesUnique, dependents, now, procs>>

\* GET /api/profile/:userId
ProfileRoute(c, userId) ==
    LET profile == getUserProfile(users, entries, userId)
    IN /\ IF ~isAuthenticated(users, c)
          THEN Send(Refusal("profile", 401))
          ELSE IF profile = << >>
          THEN Send(Refusal("profile", 404))
          ELSE Send(Served("profile", c, userId, profile))
       /\ UNCHANGED <<users, entries, nextEntryId, likes, likesUnique, dependents, now, procs>>

\* GET /api/special/:entryId?token=
SpecialPostRoute(c, entryId, token) ==
    LET entry == getSpecialPost(entries, entryId, token)
    IN /\ IF entry = << >>
          THEN Send([op |-> "special", caller |-> c, id |-> entryId, token |-> token,
                     code |-> 404, body |-> << >>])
          ELSE Send([op |-> "special", caller |-> c, id |-> entryId, token |-> token,
                     code |-> 200, body |-> entry])
       /\ UNCHANGED <<users, entries, nextEntryId, likes, likesUnique, dependents, now, procs>>

\* PATCH /api/entries/:id, up to the call of storage.updateEntry
EditStart(p, c, id, body) ==
    LET existingEntry == getEntry(entries, id)
        bodyWithoutStatus == Pick(body, (DOMAIN body) \ {"status"})
        parsed == updateWikiEntrySchema(bodyWithoutStatus)
    IN /\ Free(p)
       /\ IF ~isAuthenticated(users, c)
          THEN Send(Answered("edit", c, id, 401, << >>)) /\ Keep(p)
          ELSE IF existingEntry = << >>
          THEN Send(Answered("edit", c, id, 404, << >>)) /\ Keep(p)
          ELSE IF existingEntry[1].userId # c
          THEN Send(Answered("edit", c, id, 403, << >>)) /\ Keep(p)
          ELSE IF ~parsed.ok
          THEN Send(Answered("edit", c, id, 400, << >>)) /\ Keep(p)
          ELSE /\ Send(NoResp)
               /\ Suspend(p, [op |-> "edit", pc |-> "updateEntry", caller |-> c, id |-> id,
                              data |-> parsed.data, entry |-> << >>])
       /\ UNCHANGED <<users, entries, nextEntryId, likes, likesUnique, dependents, now>>

\* storage.updateEntry(id, validatedData)
EditUpdate(p) ==
    LET l == procs[p]
        written == updateEntry(entries, l.id, l.data)
        entry == getEntry(written, l.id)
    IN /\ l.op = "edit" /\ l.pc = "updateEntry"
       /\ entries' = written
       /\ IF entry = << >>
          THEN Send(Answered("edit", l.caller, l.id, 404, << >>)) /\ Finish(p)
          ELSE Send(NoResp) /\ Suspend(p, [l EXCEPT !.pc = "moderateEntry", !.entry = entry])
       /\ UNCHANGED <<users, nextEntryId, likes, likesUnique, dependents, now>>

\* The handler without its re-moderation write.
EditModerateSkipsReset(p) ==
    LET l == procs[p]
    IN /\ l.op = "edit" /\ l.pc = "moderateEntry"
       /\ entries' = entries
       /\ Send(Answered("edit", l.caller, l.id, 200, l.entry))
       /\ Finish(p)
       /\ UNCHANGED <<users, nextEntryId, likes, likesUnique, dependents, now>>

\* storage.moderateEntry(id, "pending"), then res.json(entry)
EditModerate(p) ==
    LET l == procs[p]
    IN /\ l.op = "edit" /\ l.pc = "moderateEntry"
       /\ entries' = moderateEntry(entries, l.id, "pending")
       /\ Send(Answered("edit", l.caller, l.id, 200, l.entry))
       /\ Finish(p)
       /\ UNCHANGED <<users, nextEntryId, likes, likesUnique, dependents, now>>

\* The handler without its ownership test.
DeleteStartAnyone(p, c, id) ==
    LET existingEntry == getEntry(entries, id)
    IN /\ Free(p)
       /\ IF ~isAuthenticated(users, c)
          THEN Send(Answered("delete", c, id, 401, << >>)) /\ Keep(p)
          ELSE IF existingEntry = << >>
          THEN Send(Answered("delete", c, id, 404, << >>)) /\ Keep(p)
          ELSE /\ Send(NoResp)
               /\ Suspend(p, [op |-> "delete", pc |-> "deleteEntry", caller |-> c, id |-> id])
       /\ UNCHANGED <<users, entries, nextEntryId, likes, likesUnique, dependents, now>>

\* DELETE /api/entries/:id, up to the call of storage.deleteEntry
DeleteStart(p, c, id) ==
    LET existingEntry == getEntry(entries, id)
    IN /\ Free(p)
       /\ IF ~isAuthenticated(users, c)
          THEN Send(Answered("delete", c, id, 401, << >>)) /\ Keep(p)
          ELSE IF existingEntry = << >>
          THEN Send(Answered("delete", c, id, 404, << >>)) /\ Keep(p)
          ELSE IF existingEntry[1].userId # c
          THEN Send(Answered("delete", c, id, 403, << >>)) /\ Keep(p)
          ELSE /\ Send(NoResp)
               /\ Suspend(p, [op |-> "delete", pc |-> "deleteEntry", caller |-> c, id |-> id])
       /\ UNCHANGED <<users, entries, nextEntryId, likes, likesUnique, dependents, now>>

\* storage.deleteEntry(id)
DeleteDo(p) ==
    LET l == procs[p]
    IN /\ l.op = "delete" /\ l.pc = "deleteEntry"
       /\ entries' = deleteEntry(entries, l.id)
       /\ likes' = CascadeLikesOfEntry(likes, l.id)
       /\ comments' = CascadeRowsOfEntry(comments, l.id)
       /\ reports' = CascadeRowsOfEntry(reports, l.id)
       /\ Send(Answered("delete", l.caller, l.id, 204, << >>))
       /\ Finish(p)
       /\ UNCHANGED <<users, nextEntryId, likesUnique, images, serial, now>>

\* The handler generating a token only for an entry that has none.
SpecialStartKeepsToken(p, c, id, body, seed) ==
    LET existingEntry == getEntry(entries, id)
        isSpecial == IF "isSpecial" \in DOMAIN body THEN body.isSpecial ELSE FALSE
        token == toHex(randomBytes(TokenBytes, seed))
        data == Spread(Pick(body, {"isSpecial"}),
                       IF isSpecial /\ Falsy(existingEntry[1].specialAccessToken)
                       THEN [specialAccessToken |-> token] ELSE EmptyRec)
    IN /\ Free(p)
       /\ IF ~isAuthenticated(users, c)
          THEN Send(Answered("setSpecial", c, id, 401, << >>)) /\ Keep(p)
          ELSE IF existingEntry = << >>
          THEN Send(Answered("setSpecial", c, id, 404, << >>)) /\ Keep(p)
          ELSE IF existingEntry[1].userId # c
          THEN Send(Answered("setSpecial", c, id, 403, << >>)) /\ Keep(p)
          ELSE /\ Send(NoResp)
               /\ Suspend(p, [op |-> "setSpecial", pc |-> "updateEntry", caller |-> c,
                              id |-> id, data |-> data, existingEntry |-> existingEntry[1]])
       /\ UNCHANGED <<users, entries, nextEntryId, likes, likesUnique, dependents, now>>

\* PATCH /api/entries/:id/special, up to the call of storage.updateEntry
SpecialStart(p, c, id, body, seed) ==
    LET existingEntry == getEntry(entries, id)
        isSpecial == IF "isSpecial" \in DOMAIN body THEN body.isSpecial ELSE FALSE
        token == toHex(randomBytes(TokenBytes, seed))
        \* keys holding undefined are not written by the update
        data == Spread(Pick(body, {"isSpecial"}),
                       IF isSpecial THEN [specialAccessToken |-> token] ELSE EmptyRec)
    IN /\ Free(p)
       /\ IF ~isAuthenticated(users, c)
          THEN Send(Answered("setSpecial", c, id, 401, << >>)) /\ Keep(p)
          ELSE IF existingEntry = << >>
          THEN Send(Answered("setSpecial", c, id, 404, << >>)) /\ Keep(p)
          ELSE IF existingEntry[1].userId # c
          THEN Send(Answered("setSpecial", c, id, 403, << >>)) /\ Keep(p)
          ELSE /\ Send(NoResp)
               /\ Suspend(p, [op |-> "setSpecial", pc |-> "updateEntry", caller |-> c,
                              id |-> id, data |-> data, existingEntry |-> existingEntry[1]])
       /\ UNCHANGED <<users, entries, nextEntryId, likes, likesUnique, dependents, now>>

\* storage.updateEntry(id, { isSpecial, specialAccessToken })
SpecialUpdate(p) ==
    LET l == procs[p]
        written == updateEntry(entries, l.id, l.data)
        updatedEntry == getEntry(written, l.id)
    IN /\ l.op = "setSpecial" /\ l.pc = "updateEntry"
       /\ entries' = written
       /\ IF updatedEntry = << >>
          THEN Send(Answered("setSpecial", l.caller, l.id, 500, << >>))
          ELSE Send([op |-> "setSpecial", caller |-> l.caller, id |-> l.id, code |-> 200,
                     body |-> updatedEntry,
                     existingEntry |-> l.existingEntry])
       /\ Finish(p)
       /\ UNCHANGED <<users, nextEntryId, likes, likesUnique, dependents, now>>

(***************************** admin routes ********************************)
\* What PATCH /api/admin/entries/:id/moderate answers to caller c.
Moderated(c, id, code, body) == Answered("moderate", c, id, code, body)

\* The route registered without the isAdmin middleware.
ModerateRouteUnguarded(c, id, status) ==
    LET written == moderateEntry(entries, id, status)
        entry == getEntry(written, id)
    IN /\ IF ~isAuthenticated(users, c)
          THEN Send(Moderated(c, id, 401, << >>)) /\ UNCHANGED entries
          ELSE IF status \notin StatusEnum
          THEN Send(Moderated(c, id, 400, << >>)) /\ UNCHANGED entries
          ELSE /\ entries' = written
               /\ IF entry = << >>
                  THEN Send(Moderated(c, id, 404, << >>))
                  ELSE Send(Moderated(c, id, 200, entry))
       /\ UNCHANGED <<users, nextEntryId, likes, likesUnique, dependents, now, procs>>

\* PATCH /api/admin/entries/:id/moderate
ModerateRoute(c, id, status) ==
    LET written == moderateEntry(entries, id, status)
        entry == getEntry(written, id)
    IN /\ IF ~isAuthenticated(users, c)
          THEN Send(Moderated(c, id, 401, << >>)) /\ UNCHANGED entries
          ELSE IF ~isAdmin(users, c)
          THEN Send(Moderated(c, id, 403, << >>)) /\ UNCHANGED entries
          ELSE IF status \notin StatusEnum
          THEN Send(Moderated(c, id, 400, << >>)) /\ UNCHANGED entries
          ELSE /\ entries' = written
               /\ IF entry = << >>
                  THEN Send(Moderated(c, id, 404, << >>))
                  ELSE Send(Moderated(c, id, 200, entry))
       /\ UNCHANGED <<users, nextEntryId, likes, likesUnique, dependents, now, procs>>

\* PATCH /api/admin/entries/:id/verify
VerifyRoute(c, id, verification) ==
    LET written == setEntryVerification(entries, id, verification)
        entry == getEntry(written, id)
    IN /\ IF ~isAuthenticated(users, c)
          THEN Send(Answered("verify", c, id, 401, << >>)) /\ UNCHANGED entries
          ELSE IF ~isAdmin(users, c)
          THEN Send(Answered("verify", c, id, 403, << >>)) /\ UNCHANGED entries
          ELSE IF verification \notin VerificationEnum
          THEN Send(Answered("verify", c, id, 400, << >>)) /\ UNCHANGED entries
          ELSE /\ entries' = written
               /\ IF entry = << >>
                  THEN Send(Answered("verify", c, id, 404, << >>))
                  ELSE Send(Answered("verify", c, id, 200, entry))
       /\ UNCHANGED <<users, nextEntryId, likes, likesUnique, dependents, now, procs>>

\* DELETE /api/admin/entries/:id
AdminDeleteRoute(c, id) ==
    /\ IF ~isAuthenticated(users, c)
       THEN Send(Answered("adminDelete", c, id, 401, << >>)) /\ UNCHANGED <<entries, likes, comments, reports>>
       ELSE IF ~isAdmin(users, c)
       THEN Send(Answered("adminDelete", c, id, 403, << >>)) /\ UNCHANGED <<entries, likes, comments, reports>>
       ELSE /\ entries' = deleteEntry(entries, id)
            /\ likes' = CascadeLikesOfEntry(likes, id)
            /\ comments' = CascadeRowsOfEntry(comments, id)
            /\ reports' = CascadeRowsOfEntry(reports, id)
            /\ Send(Answered("adminDelete", c, id, 204, << >>))
    /\ UNCHANGED <<users, nextEntryId, likesUnique, images, serial, now, procs>>

\* The handler without its test of the role.
RoleRouteUnchecked(c, id, role) ==
    LET written == updateUserRole(users, id, role)
        user == getUser(written, id)
    IN /\ IF ~isAuthenticated(users, c)
          THEN Send(Answered("role", c, id, 401, << >>)) /\ UNCHANGED users
          ELSE IF ~isAdmin(users, c)
          THEN Send(Answered("role", c, id, 403, << >>)) /\ UNCHANGED users
          ELSE /\ users' = written
               /\ IF user = << >>
                  THEN Send(Answered("role", c, id, 404, << >>))
                  ELSE Send(Answered("role", c, id, 200, user))
       /\ UNCHANGED <<entries, nextEntryId, likes, likesUnique, dependents, now, procs>>

\* PATCH /api/admin/users/:id/role
RoleRoute(c, id, role) ==
    LET written == updateUserRole(users, id, role)
        user == getUser(written, id)
    IN /\ IF ~isAuthenticated(users, c)
          THEN Send(Answered("role", c, id, 401, << >>)) /\ UNCHANGED users
          ELSE IF ~isAdmin(users, c)
          THEN Send(Answered("role", c, id, 403, << >>)) /\ UNCHANGED users
          ELSE IF role \notin RoleEnum
          THEN Send(Answered("role", c, id, 400, << >>)) /\ UNCHANGED users
          ELSE /\ users' = written
               /\ IF user = << >>
                  THEN Send(Answered("role", c, id, 404, << >>))
                  ELSE Send(Answered("role", c, id, 200, user))
       /\ UNCHANGED <<entries, nextEntryId, likes, likesUnique, dependents, now, procs>>

\* PATCH /api/admin/users/:id/badge
BadgeRoute(c, id, badge) ==
    LET written == setUserBadge(users, id, badge)
        user == getUser(written, id)
    IN /\ IF ~isAuthenticated(users, c)
          THEN Send(Answered("badge", c, id, 401, << >>)) /\ UNCHANGED users
          ELSE IF ~isAdmin(users, c)
          THEN Send(Answered("badge", c, id, 403, << >>)) /\ UNCHANGED users
          ELSE IF badge \notin BadgeEnum
          THEN Send(Answered("badge", c, id, 400, << >>)) /\ UNCHANGED users
          ELSE /\ users' = written
               /\ IF user = << >>
                  THEN Send(Answered("badge", c, id, 404, << >>))
                  ELSE Send(Answered("badge", c, id, 200, user))
       /\ UNCHANGED <<entries, nextEntryId, likes, likesUnique, dependents, now, procs>>

\* Answers of the user administration routes.
UserAnswer(op, userId, code, body) == [op |-> op, id |-> userId, code |-> code, body |-> body]

\* POST /api/admin/users/:userId/ban
BanRoute(c, userId, body) ==
    LET reason == IF "reason" \in DOMAIN body THEN body.reason ELSE Undefined
        bannedUntil == IF "hours" \in DOMAIN body /\ body.hours # 0 /\ body.hours > 0
                       THEN DateAt(now + body.hours) ELSE NoDate
        written == banUser(users, userId, reason, bannedUntil)
        user == getUser(written, userId)
    IN /\ IF ~isAuthenticated(users, c)
          THEN Send(Refusal("ban", 401)) /\ UNCHANGED users
          ELSE IF ~isAdmin(users, c)
          THEN Send(Refusal("ban", 403)) /\ UNCHANGED users
          ELSE IF Falsy(reason)
          THEN Send(Refusal("ban", 400)) /\ UNCHANGED users
          ELSE /\ users' = written
               /\ IF user = << >>
                  THEN Send(Refusal("ban", 404))
                  ELSE Send(UserAnswer("ban", userId, 200, user))
       /\ UNCHANGED <<entries, nextEntryId, likes, likesUnique, dependents, now, procs>>

\* POST /api/admin/users/:userId/unban
UnbanRoute(c, userId) ==
    LET written == unbanUser(users, userId)
        user == getUser(written, userId)
    IN /\ IF ~isAuthenticated(users, c)
          THEN Send(Refusal("unban", 401)) /\ UNCHANGED users
          ELSE IF ~isAdmin(users, c)
          THEN Send(Refusal("unban", 403)) /\ UNCHANGED users
          ELSE /\ users' = written
               /\ IF user = << >>
                  THEN Send(Refusal("unban", 404))
                  ELSE Send(UserAnswer("unban", userId, 200, user))
       /\ UNCHANGED <<entries, nextEntryId, likes, likesUnique, dependents, now, procs>>

\* DELETE /api/admin/users/:userId
DeleteUserRoute(c, userId) ==
    /\ IF ~isAuthenticated(users, c)
       THEN /\ Send(Refusal("deleteUser", 401))
            /\ UNCHANGED <<users, entries, likes, comments, reports, images>>
       ELSE IF ~isAdmin(users, c)
       THEN /\ Send(Refusal("deleteUser", 403))
            /\ UNCHANGED <<users, entries, likes, comments, reports, images>>
       ELSE /\ users' = deleteUser(users, userId)
            /\ entries' = CascadeEntriesOfUser(entries, userId)
            /\ likes' = CascadeLikesOfUser(likes, entries, userId)
            /\ comments' = CascadeCommentsOfUser(comments, entries, userId)
            /\ reports' = CascadeReportsOfUser(reports, entries, userId)
            /\ images' = CascadeImagesOfUser(images, userId)
            /\ Send(UserAnswer("deleteUser", userId, 200, << >>))
    /\ UNCHANGED <<nextEntryId, likesUnique, serial, now, procs>>

(****************************** ban check **********************************)
\* What checkUserBanned returns: the row it read, the instant it compared
\* with, and the result.
BanChecked(userId, user, at, ret) ==
    [op |-> "checkBan", id |-> userId, user |-> user, at |-> at, ret |-> ret]

\* checkUserBanned: this.getUser(userId)
CheckRead(p, userId) ==
    /\ Free(p)
    /\ Suspend(p, [op |-> "checkBan", pc |-> "decide", id |-> userId,
                   user |-> getUser(users, userId), at |-> 0])
    /\ Send(NoResp)
    /\ UNCHANGED <<users, entries, nextEntryId, likes, likesUnique, dependents, now>>

\* checkUserBanned: the tests on the row read, new Date() being read now
CheckDecide(p) ==
    LET l == procs[p]
    IN /\ l.op = "checkBan" /\ l.pc = "decide"
       /\ IF l.user = << >> \/ ~l.user[1].isBanned
          THEN Send(BanChecked(l.id, l.user, now, FALSE)) /\ Finish(p)
          ELSE IF l.user[1].bannedUntil.kind = "date" /\ now > l.user[1].bannedUntil.t
          THEN Send(NoResp) /\ Suspend(p, [l EXCEPT !.pc = "unbanUser", !.at = now])
          ELSE Send(BanChecked(l.id, l.user, now, l.user[1].isBanned)) /\ Finish(p)
       /\ UNCHANGED <<users, entries, nextEntryId, likes, likesUnique, dependents, now>>

\* checkUserBanned: this.unbanUser(userId), return false
CheckUnban(p) ==
    LET l == procs[p]
    IN /\ l.op = "checkBan" /\ l.pc = "unbanUser"
       /\ users' = unbanUser(users, l.id)
       /\ Send(BanChecked(l.id, l.user, l.at, FALSE))
       /\ Finish(p)
       /\ UNCHANGED <<entries, nextEntryId, likes, likesUnique, dependents, now>>

\* Time passes.
Tick ==
    /\ now < MaxTime
    /\ now' = now + 1
    /\ Send(NoResp)
    /\ UNCHANGED <<users, entries, nextEntryId, likes, likesUnique, dependents, procs>>

(****************************** like routes ********************************)
\* POST /api/likes, up to the call of storage.createLike
LikeStart(p, c, body) ==
    /\ Free(p)
    /\ IF ~isAuthenticated(users, c)
       THEN Send(Refusal("like", 401)) /\ Keep(p)
       ELSE IF "entryId" \notin DOMAIN body
       THEN Send(Refusal("like", 400)) /\ Keep(p)
       ELSE IF userLikesEntry(likes, body.entryId, c)
       THEN Send(Refusal("like", 400)) /\ Keep(p)
       ELSE /\ Send(NoResp)
            /\ Suspend(p, [op |-> "like", pc |-> "createLike",
                           validatedData |-> [entryId |-> body.entryId, userId |-> c]])
    /\ UNCHANGED <<users, entries, nextEntryId, likes, likesUnique, dependents, now>>

\* storage.createLike(validatedData): the insert fails on a missing entry or
\* user (foreign keys) and, where the table has the constraint, on a second
\* row of the pair
LikeInsert(p) ==
    LET l == procs[p]
        like == l.validatedData
    IN /\ l.op = "like" /\ l.pc = "createLike"
       /\ IF \/ like.entryId \notin DOMAIN entries
             \/ like.userId \notin DOMAIN users
             \/ (likesUnique /\ userLikesEntry(likes, like.entryId, like.userId))
          THEN Send(Refusal("like", 500)) /\ UNCHANGED likes
          ELSE /\ likes' = createLike(likes, like)
               /\ Send([op |-> "like", id |-> like.entryId, caller |-> like.userId,
                         code |-> 201])
       /\ Finish(p)
       /\ UNCHANGED <<users, entries, nextEntryId, likesUnique, dependents, now>>

\* DELETE /api/likes/:entryId
UnlikeRoute(c, entryId) ==
    /\ IF ~isAuthenticated(users, c)
       THEN Send(Refusal("unlike", 401)) /\ UNCHANGED likes
       ELSE /\ likes' = removeLike(likes, entryId, c)
            /\ Send([op |-> "unlike", id |-> entryId, caller |-> c, code |-> 200])
    /\ UNCHANGED <<users, entries, nextEntryId, likesUnique, dependents, now, procs>>

(************************ comments, reports, gallery ***********************)
\* POST /api/comments
CommentRoute(c, body) ==
    LET id == serial.comments + 1
    IN /\ IF ~isAuthenticated(users, c)
          THEN Send(Refusal("comment", 401)) /\ UNCHANGED <<comments, serial>>
          ELSE IF {"entryId", "content"} \ DOMAIN body # {}
          THEN Send(Refusal("comment", 400)) /\ UNCHANGED <<comments, serial>>
          ELSE IF body.entryId \notin DOMAIN entries
          THEN Send(Refusal("comment", 500)) /\ UNCHANGED <<comments, serial>>
          ELSE /\ comments' = createComment(comments, id,
                                 [entryId |-> body.entryId, userId |-> c, content |-> body.content])
               /\ serial' = [serial EXCEPT !.comments = id]
               /\ Send(Response("comment", id, 201, <<comments'[id]>>))
       /\ UNCHANGED <<users, entries, nextEntryId, likes, likesUnique, reports, images, now, procs>>

\* POST /api/reports
ReportRoute(c, body) ==
    LET id == serial.reports + 1
    IN /\ IF ~isAuthenticated(users, c)
          THEN Send(Refusal("report", 401)) /\ UNCHANGED <<reports, serial>>
          ELSE IF {"entryId", "reason"} \ DOMAIN body # {}
          THEN Send(Refusal("report", 400)) /\ UNCHANGED <<reports, serial>>
          ELSE IF body.entryId \notin DOMAIN entries
          THEN Send(Refusal("report", 500)) /\ UNCHANGED <<reports, serial>>
          ELSE /\ reports' = createReport(reports, id,
                                 [entryId |-> body.entryId, reporterId |-> c, reason |-> body.reason])
               /\ serial' = [serial EXCEPT !.reports = id]
               /\ Send(Response("report", id, 201, <<reports'[id]>>))
       /\ UNCHANGED <<users, entries, nextEntryId, likes, likesUnique, comments, images, now, procs>>

\* POST /api/user/gallery
AddImageRoute(c, body) ==
    LET id == serial.images + 1
    IN /\ IF ~isAuthenticated(users, c)
          THEN Send(Refusal("addImage", 401)) /\ UNCHANGED <<images, serial>>
          ELSE IF "imageUrl" \notin DOMAIN body
          THEN Send(Refusal("addImage", 400)) /\ UNCHANGED <<images, serial>>
          ELSE /\ images' = addUserImage(images, id, c, body.imageUrl)
               /\ serial' = [serial EXCEPT !.images = id]
               /\ Send(Response("addImage", id, 201, <<images'[id]>>))
       /\ UNCHANGED <<users, entries, nextEntryId, likes, likesUnique, comments, reports, now, procs>>

\* What a DELETE route answers; deleted holds the rows its DELETE statement
\* removed (the routes do not look at them).
Deleted(op, c, id, code, rows) ==
    [op |-> op, caller |-> c, id |-> id, code |-> code, deleted |-> rows]

RowsAt(rows, id) == IF id \in DOMAIN rows THEN <<rows[id]>> ELSE << >>

\* DELETE /api/comments/:commentId, up to await storage.getComments('')
DeleteCommentStart(p, c, commentId) ==
    /\ Free(p)
    /\ IF ~isAuthenticated(users, c)
       THEN Send(Deleted("deleteComment", c, commentId, 401, << >>)) /\ Keep(p)
       ELSE /\ Send(NoResp)
            /\ Suspend(p, [op |-> "deleteComment", pc |-> "deleteComment", caller |-> c,
                           id |-> commentId])
    /\ UNCHANGED <<users, entries, nextEntryId, likes, likesUnique, dependents, now>>

\* The handler refusing a comment of another user.
DeleteCommentOwnerOnly(p) ==
    LET l == procs[p]
        own == l.id \in DOMAIN comments => comments[l.id].userId = l.caller
    IN /\ l.op = "deleteComment" /\ l.pc = "deleteComment"
       /\ IF own
          THEN /\ comments' = deleteComment(comments, l.id)
               /\ Send(Deleted("deleteComment", l.caller, l.id, 200, RowsAt(comments, l.id)))
          ELSE /\ comments' = comments
               /\ Send(Deleted("deleteComment", l.caller, l.id, 403, << >>))
       /\ Finish(p)
       /\ UNCHANGED <<users, entries, nextEntryId, likes, likesUnique, reports, images, serial, now>>

\* storage.deleteComment(commentId), then res.json({ success: true })
DeleteCommentDo(p) ==
    LET l == procs[p]
    IN /\ l.op = "deleteComment" /\ l.pc = "deleteComment"
       /\ comments' = deleteComment(comments, l.id)
       /\ Send(Deleted("deleteComment", l.caller, l.id, 200, RowsAt(comments, l.id)))
       /\ Finish(p)
       /\ UNCHANGED <<users, entries, nextEntryId, likes, likesUnique, reports, images, serial, now>>

\* The handler without its ownership test.
DeleteImageStartAnyone(p, c, imageId) ==
    /\ Free(p)
    /\ IF ~isAuthenticated(users, c)
       THEN Send(Deleted("deleteImage", c, imageId, 401, << >>)) /\ Keep(p)
       ELSE /\ Send(NoResp)
            /\ Suspend(p, [op |-> "deleteImage", pc |-> "deleteUserImage", caller |-> c,
                           id |-> imageId])
    /\ UNCHANGED <<users, entries, nextEntryId, likes, likesUnique, dependents, now>>

\* DELETE /api/user/gallery/:imageId, up to the call of storage.deleteUserImage
DeleteImageStart(p, c, imageId) ==
    LET imgs == getUserImages(images, c)
    IN /\ Free(p)
       /\ IF ~isAuthenticated(users, c)
          THEN Send(Deleted("deleteImage", c, imageId, 401, << >>)) /\ Keep(p)
          ELSE IF ~\E img \in imgs : img.id = imageId
          THEN Send(Deleted("deleteImage", c, imageId, 403, << >>)) /\ Keep(p)
          ELSE /\ Send(NoResp)
               /\ Suspend(p, [op |-> "deleteImage", pc |-> "deleteUserImage", caller |-> c,
                              id |-> imageId])
       /\ UNCHANGED <<users, entries, nextEntryId, likes, likesUnique, dependents, now>>

\* storage.deleteUserImage(imageId), then res.status(204)
DeleteImageDo(p) ==
    LET l == procs[p]
    IN /\ l.op = "deleteImage" /\ l.pc = "deleteUserImage"
       /\ images' = deleteUserImage(images, l.id)
       /\ Send(Deleted("deleteImage", l.caller, l.id, 204, RowsAt(images, l.id)))
       /\ Finish(p)
       /\ UNCHANGED <<users, entries, nextEntryId, likes, likesUnique, comments, reports, serial, now>>

(*********************** moderation workflow specification *****************)
UserRow(id, admin, role) ==
    [id |-> id, isAdmin |-> admin, role |-> role, badge |-> "none",
     isBanned |-> FALSE, bannedUntil |-> NullDate, banReason |-> Null]

\* The registered users: two plain users and a moderator.
RegisteredUsers ==
    [u \in UserIds |->
        IF u = "u3" THEN UserRow(u, FALSE, "moderator") ELSE UserRow(u, FALSE, "user")]

NoLikes == [k \in EntryIds \X UserIds |-> 0]
NoRows == [comments |-> 0, reports |-> 0, images |-> 0]

\* The users have logged in; nothing has been posted yet.
Init ==
    /\ users = RegisteredUsers
    /\ entries = EmptyRec
    /\ nextEntryId = 1
    /\ likes = NoLikes
    /\ likesUnique = TRUE
    /\ comments = EmptyRec /\ reports = EmptyRec /\ images = EmptyRec
    /\ serial = NoRows
    /\ now = 0
    /\ procs = [p \in Procs |-> Idle]
    /\ resp = NoResp

Next ==
    \/ \E c \in Authors \cup {Anonymous}, body \in CreateBodies :
            nextEntryId <= WorkflowEntries /\ CreateEntryRoute(c, body)
    \/ \E p \in EntryProcs, c \in Callers, id \in RequestIds(WorkflowEntries), body \in EditBodies : EditStart(p, c, id, body)
    \/ \E p \in EntryProcs : EditUpdate(p)
    \/ \E p \in EntryProcs : EditModerate(p)
    \/ \E p \in EntryProcs, c \in Callers, id \in RequestIds(WorkflowEntries) : DeleteStart(p, c, id)
    \/ \E p \in EntryProcs : DeleteDo(p)
    \/ \E p \in EntryProcs, c \in Callers, id \in RequestIds(WorkflowEntries),
          body \in SpecialBodies : SpecialStart(p, c, id, body, 1)
    \/ \E p \in EntryProcs : SpecialUpdate(p)
    \/ \E c \in Callers, id \in RequestIds(WorkflowEntries), st \in ModerateInputs : ModerateRoute(c, id, st)
    \/ \E c \in Callers, id \in RequestIds(WorkflowEntries), v \in VerifyInputs : VerifyRoute(c, id, v)
    \/ \E c \in Callers, id \in RequestIds(WorkflowEntries) : AdminDeleteRoute(c, id)

Spec == Init /\ [][Next]_vars

(*********************** special access specification **********************)
\* Posting, the special toggle, moderation and every read of entries.
NextAccess ==
    \/ \E c \in Authors, body \in AccessCreateBodies :
            nextEntryId <= AccessEntries /\ CreateEntryRoute(c, body)
    \/ \E p \in EntryProcs, c \in Callers, id \in RequestIds(AccessEntries),
          body \in SpecialBodies, seed \in 1..MaxSeed : SpecialStart(p, c, id, body, seed)
    \/ \E p \in EntryProcs : SpecialUpdate(p)
    \/ \E c \in Callers, id \in RequestIds(AccessEntries), st \in StatusEnum :
            ModerateRoute(c, id, st)
    \/ \E c \in Callers : ApprovedRoute(c)
    \/ \E c \in Callers, id \in RequestIds(AccessEntries) : GetEntryRoute(c, id)
    \/ \E c \in Callers, userId \in UserIds : ProfileRoute(c, userId)
    \/ \E c \in Callers, id \in RequestIds(AccessEntries), token \in QueryTokens :
            SpecialPostRoute(c, id, token)

SpecAccess == Init /\ [][NextAccess]_vars

(**************************** ban specification ****************************)
\* Banning, unbanning and deleting users while ban checks run and time passes.
NextBan ==
    \/ \E c \in Callers, userId \in BanTargets, body \in BanBodies : BanRoute(c, userId, body)
    \/ \E c \in Callers, userId \in BanTargets : UnbanRoute(c, userId)
    \/ \E c \in Callers, userId \in BanTargets : DeleteUserRoute(c, userId)
    \/ \E p \in Procs, userId \in BanTargets : CheckRead(p, userId)
    \/ \E p \in Procs : CheckDecide(p)
    \/ \E p \in Procs : CheckUnban(p)
    \/ Tick

SpecBan == Init /\ [][NextBan]_vars

(**************************** like specification ***************************)
\* The likes table was created with or without its UNIQUE (entry_id, user_id).
InitLike ==
    /\ users = RegisteredUsers
    /\ entries = EmptyRec
    /\ nextEntryId = 1
    /\ likes = NoLikes
    /\ likesUnique \in BOOLEAN
    /\ comments = EmptyRec /\ reports = EmptyRec /\ images = EmptyRec
    /\ serial = NoRows
    /\ now = 0
    /\ procs = [p \in Procs |-> Idle]
    /\ resp = NoResp

NextLike ==
    \/ \E c \in Authors :
            nextEntryId <= LikeEntries /\ CreateEntryRoute(c, [title |-> "t1", description |-> "d1"])
    \/ \E p \in Procs, c \in Callers, body \in LikeBodies(LikeEntries) : LikeStart(p, c, body)
    \/ \E p \in Procs : LikeInsert(p)
    \/ \E c \in Callers, id \in RequestIds(LikeEntries) : UnlikeRoute(c, id)
    \/ \E c \in Callers, id \in RequestIds(LikeEntries) : AdminDeleteRoute(c, id)

SpecLike == InitLike /\ [][NextLike]_vars

(*************************** cascade specification *************************)
\* Entries gather comments, reports and likes, users gather images, while
\* entries and users are deleted.
NextCascade ==
    \/ \E c \in Authors :
            nextEntryId <= CascadeEntries /\ CreateEntryRoute(c, [title |-> "t1", description |-> "d1"])
    \/ \E c \in Callers, body \in CommentBodies(CascadeEntries) :
            serial.comments < MaxRows /\ CommentRoute(c, body)
    \/ \E c \in Callers, body \in ReportBodies(CascadeEntries) :
            serial.reports < MaxRows /\ ReportRoute(c, body)
    \/ \E c \in Callers, body \in ImageBodies :
            serial.images < MaxRows /\ AddImageRoute(c, body)
    \/ \E p \in EntryProcs, c \in Callers, body \in LikeBodies(CascadeEntries) : LikeStart(p, c, body)
    \/ \E p \in EntryProcs : LikeInsert(p)
    \/ \E p \in EntryProcs, c \in Callers, id \in RequestIds(CascadeEntries) : DeleteStart(p, c, id)
    \/ \E p \in EntryProcs : DeleteDo(p)
    \/ \E c \in Callers, id \in RequestIds(CascadeEntries) : AdminDeleteRoute(c, id)
    \/ \E c \in Callers, userId \in UserIds : DeleteUserRoute(c, userId)

SpecCascade == Init /\ [][NextCascade]_vars

(************************ administration specification *********************)
\* The four admin routes that set an enumerated field, and the public
\* listing of what was approved.
NextAdmin ==
    \/ \E c \in Authors, body \in AdminCreateBodies :
            nextEntryId <= AdminEntries /\ CreateEntryRoute(c, body)
    \/ \E c \in Callers, id \in RequestIds(AdminEntries), st \in ModerateInputs :
            ModerateRoute(c, id, st)
    \/ \E c \in Callers, id \in RequestIds(AdminEntries), v \in VerifyInputs :
            VerifyRoute(c, id, v)
    \/ \E c \in Callers, id \in AdminTargets, role \in RoleInputs : RoleRoute(c, id, role)
    \/ \E c \in Callers, id \in AdminTargets, badge \in BadgeInputs : BadgeRoute(c, id, badge)
    \/ \E c \in Callers : ApprovedRoute(c)

SpecAdmin == Init /\ [][NextAdmin]_vars

(*************************** comment specification *************************)
\* Comments are posted on an entry and deleted.
NextComments ==
    \/ \E c \in Authors :
            nextEntryId <= ContentEntries /\ CreateEntryRoute(c, [title |-> "t1", description |-> "d1"])
    \/ \E c \in Callers, body \in CommentBodies(ContentEntries) :
            serial.comments < ContentRows /\ CommentRoute(c, body)
    \/ \E p \in Procs, c \in Callers, id \in RequestIds(ContentRows) : DeleteCommentStart(p, c, id)
    \/ \E p \in Procs : DeleteCommentDo(p)

SpecComments == Init /\ [][NextComments]_vars

(*************************** gallery specification *************************)
\* Gallery images are added and deleted.
NextGallery ==
    \/ \E c \in Callers, body \in ImageBodies :
            serial.images < ContentRows /\ AddImageRoute(c, body)
    \/ \E p \in Procs, c \in Callers, id \in RequestIds(ContentRows) : DeleteImageStart(p, c, id)
    \/ \E p \in Procs : DeleteImageDo(p)

SpecGallery == Init /\ [][NextGallery]_vars

(**************************** login specification **************************)
\* Columns of users the model keeps that an insert may name.
UserColumns == {"id", "email", "isAdmin", "role", "badge", "isBanned", "bannedUntil", "banReason"}

\* Column defaults of users.
DefaultUser(id) == Spread(UserRow(id, FALSE, "user"), [email |-> Null])

\* users.email is UNIQUE: the statement fails when another row holds the address
EmailTaken(usrs, id, userData) ==
    /\ "email" \in DOMAIN userData /\ userData.email.kind = "string"
    /\ \E u \in (DOMAIN usrs) \ {id} : usrs[u].email = userData.email

\* upsertUser overwriting the row it finds.
upsertUserReplaces(usrs, userData) ==
    [u \in (DOMAIN usrs) \cup {userData.id} |->
        IF u = userData.id THEN Spread(DefaultUser(u), Pick(userData, UserColumns)) ELSE usrs[u]]

\* insert ... values(userData) on conflict (id) do update set email, firstName,
\* lastName, profileImageUrl, isAdmin; keys holding undefined are not written
upsertUser(usrs, userData) ==
    [u \in (DOMAIN usrs) \cup {userData.id} |->
        IF u # userData.id THEN usrs[u]
        ELSE IF u \in DOMAIN usrs
        THEN Spread(usrs[u], Pick(userData, {"email", "isAdmin"}))
        ELSE Spread(DefaultUser(u), Pick(userData, UserColumns))]

\* The user data a login may hand to upsertUser: the session's id, with or
\* without an address and an isAdmin value, and with columns the update does
\* not name.
LoginIds == {"u1", "u4"}
UpsertData ==
    Combine(Combine({[id |-> i] : i \in LoginIds},
                    Options("email", {Str(2, 1), Str(4, 1)})),
            Combine(Options("isAdmin", {TRUE, FALSE}),
                    {EmptyRec, [role |-> "admin", badge |-> "green_check", isBanned |-> FALSE]}))

\* The write done at login.
UpsertRoute(userData) ==
    /\ IF EmailTaken(users, userData.id, userData)
       THEN /\ Send([op |-> "upsert", id |-> userData.id, data |-> userData, code |-> 500,
                     body |-> << >>])
            /\ UNCHANGED users
       ELSE /\ users' = upsertUser(users, userData)
            /\ Send([op |-> "upsert", id |-> userData.id, data |-> userData, code |-> 200,
                     body |-> getUser(users', userData.id)])
    /\ UNCHANGED <<entries, nextEntryId, likes, likesUnique, dependents, now, procs>>

\* The registered users, each with an address of their own.
InitLogin ==
    /\ users = [u \in UserIds |-> Spread(RegisteredUsers[u], [email |-> Str(CHOOSE k \in 1..3 : u = <<"u1", "u2", "u3">>[k], 1)])]
    /\ entries = EmptyRec
    /\ nextEntryId = 1
    /\ likes = NoLikes
    /\ likesUnique = TRUE
    /\ comments = EmptyRec /\ reports = EmptyRec /\ images = EmptyRec
    /\ serial = NoRows
    /\ now = 0
    /\ procs = [p \in Procs |-> Idle]
    /\ resp = NoResp

\* Users log in again while a moderator bans them and sets roles and badges.
NextLogin ==
    \/ \E userData \in UpsertData : UpsertRoute(userData)
    \/ \E c \in {"u3"}, body \in BanBodies : BanRoute(c, "u1", body)
    \/ \E c \in {"u3"} : UnbanRoute(c, "u1")
    \/ \E c \in {"u3"}, role \in RoleEnum : RoleRoute(c, "u1", role)
    \/ \E c \in {"u3"}, badge \in BadgeEnum : BadgeRoute(c, "u1", badge)

SpecLogin == InitLogin /\ [][NextLogin]_vars

(******************************* claims ************************************)
\* C1: every entry created through POST /api/entries is stored with
\* status = pending, whatever status the creation payload carried.
C1_CreatedPending ==
    (resp.op = "createEntry" /\ resp.code = 201) => entries[resp.id].status = "pending"

\* C2: when an owner edit succeeds, the stored status of the edited entry is
\* pending, whatever it was before (approved and rejected included).
C2_EditResetsStatus ==
    (resp.op = "edit" /\ resp.code = 200 /\ resp.id \in DOMAIN entries)
        => entries[resp.id].status = "pending"

\* an edit answered 200 whose updateEntry still returned the entry as approved
\* or rejected
C2_Witness ==
    /\ resp.op = "edit" /\ resp.code = 200
    /\ resp.body[1].status \in {"approved", "rejected"}
    /\ resp.id \in DOMAIN entries
    /\ entries[resp.id].status = "pending"

\* the admin / moderator capability of section 4.1
HasModerateCapability(c) ==
    c \in DOMAIN users /\ (users[c].isAdmin \/ users[c].role \in {"admin", "moderator"})

\* C3: a moderation request of a signed-in caller without admin or moderator
\* capability is answered 403 and leaves every entry as it was.
C3_ModerateForbidden ==
    [][(resp'.op = "moderate" /\ resp'.caller \in UserIds /\ ~HasModerateCapability(resp'.caller))
          => (resp'.code = 403 /\ entries' = entries)]_vars

\* a moderation request was refused with 403 while an approved entry exists
C3_Witness ==
    /\ resp.op = "moderate" /\ resp.code = 403 /\ resp.caller = "u1"
    /\ \E id \in DOMAIN entries : entries[id].status = "approved"

\* the entries a read just returned
ReturnedEntries ==
    IF resp.op \in {"getEntry", "special"} /\ resp.code = 200 THEN {resp.body[1]}
    ELSE IF resp.op = "profile" /\ resp.code = 200 THEN resp.body[1].wikiEntries
    ELSE IF resp.op = "approved" /\ resp.code = 200 THEN resp.body
    ELSE {}

\* caller c is anonymous, or neither the owner of e nor admin / moderator
Unprivileged(c, e) == c = Anonymous \/ (c # e.userId /\ ~HasModerateCapability(c))

\* C4: no read returns a non-special entry that is pending or rejected to an
\* anonymous caller or to a signed-in caller who is neither its owner nor
\* admin / moderator.
C4_UnapprovedHidden ==
    \A e \in ReturnedEntries :
        (Unprivileged(resp.caller, e) /\ ~e.isSpecial) => e.status = "approved"

\* C5: the special fetch answers not-found for an entry that does not exist,
\* and returns an entry with isSpecial = true exactly when a non-empty token
\* is supplied that equals the stored specialAccessToken.
C5_SpecialFetch ==
    resp.op = "special" =>
        IF resp.id \notin DOMAIN entries THEN resp.code = 404
        ELSE LET e == entries[resp.id]
                 matching == /\ resp.token.kind = "string" /\ resp.token.len > 0
                             /\ resp.token = e.specialAccessToken
             IN e.isSpecial =>
                    IF matching THEN resp.code = 200 /\ resp.body = <<e>>
                    ELSE resp.code = 404 /\ resp.body = << >>

\* a special entry whose stored token is the empty string was refused to a
\* caller sending the empty token
C5_Witness ==
    /\ resp.op = "special" /\ resp.code = 404 /\ resp.id \in DOMAIN entries
    /\ entries[resp.id].isSpecial
    /\ resp.token = EmptyStr /\ entries[resp.id].specialAccessToken = EmptyStr

\* C6: a read returns an entry with isSpecial = true to a caller who is
\* neither its owner nor admin / moderator only when it is the special fetch
\* and the caller presented the stored token.
C6_SpecialNeedsToken ==
    \A e \in ReturnedEntries :
        (Unprivileged(resp.caller, e) /\ e.isSpecial)
            => (resp.op = "special" /\ resp.token = e.specialAccessToken)

\* C7: when the toggle has switched an entry from isSpecial = false to true,
\* the stored token is a string of 2 * 32 characters, the special fetch with
\* that token returns the entry, and with any other or no token it does not.
C7_ToggleIssuesToken ==
    (/\ resp.op = "setSpecial" /\ resp.code = 200
     /\ ~resp.existingEntry.isSpecial /\ resp.body[1].isSpecial)
        => LET t == entries[resp.id].specialAccessToken
           IN /\ t.kind = "string" /\ t.len = 64 /\ t.len > 0
              /\ getSpecialPost(entries, resp.id, t) = <<entries[resp.id]>>
              /\ \A q \in QueryTokens \ {t} : getSpecialPost(entries, resp.id, q) = << >>

\* the toggle has just switched an approved entry to special
C7_Witness ==
    /\ resp.op = "setSpecial" /\ resp.code = 200
    /\ ~resp.existingEntry.isSpecial /\ resp.body[1].isSpecial
    /\ entries[resp.id].status = "approved"

\* C8: when the ban check has read a banned user whose bannedUntil lies
\* strictly before the instant of the check, it returns not banned and the
\* stored record has isBanned = false, banReason = null, bannedUntil = null.
C8_ExpiredBanCleared ==
    (/\ resp.op = "checkBan" /\ resp.user # << >>
     /\ resp.user[1].isBanned
     /\ resp.user[1].bannedUntil.kind = "date" /\ resp.user[1].bannedUntil.t < resp.at)
        => /\ resp.ret = FALSE
           /\ resp.id \in DOMAIN users =>
                  /\ users[resp.id].isBanned = FALSE
                  /\ users[resp.id].banReason = Null
                  /\ users[resp.id].bannedUntil = NullDate

\* a check of a user banned for a time that has passed has just returned
\* and the user is still registered
C8_Witness ==
    /\ resp.op = "checkBan" /\ resp.user # << >>
    /\ resp.user[1].isBanned /\ resp.user[1].bannedUntil.kind = "date"
    /\ resp.user[1].bannedUntil.t < resp.at
    /\ resp.ret = FALSE /\ resp.id \in DOMAIN users

PermanentlyBanned(usrs, u) ==
    u \in DOMAIN usrs /\ usrs[u].isBanned /\ usrs[u].bannedUntil = NullDate

\* C9: a ban check that read a permanently banned user returns banned, and a
\* permanently banned user stays banned across every step that is not an
\* unban or a deletion of the user.
C9_PermanentBanStays ==
    [][/\ (resp'.op = "checkBan" /\ resp'.user # << >> /\ resp'.user[1].isBanned
            /\ resp'.user[1].bannedUntil = NullDate) => resp'.ret
       /\ \A u \in BanTargets :
            (PermanentlyBanned(users, u) /\ ~(u \in DOMAIN users' /\ users'[u].isBanned))
                => resp'.op \in {"unban", "deleteUser"}]_vars

\* C10: the likes table holds at most one row for every pair of entry and
\* user, whatever like requests ran and however they interleaved.
C10_OneLikePerPair == \A k \in DOMAIN likes : likes[k] <= 1

\* every stored reference names a stored row
ReferentialIntegrity ==
    /\ \A e \in DOMAIN entries : entries[e].userId \in DOMAIN users
    /\ \A i \in DOMAIN images : images[i].userId \in DOMAIN users
    /\ \A r \in DOMAIN reports :
            reports[r].entryId \in DOMAIN entries /\ reports[r].reporterId \in DOMAIN users
    /\ \A m \in DOMAIN comments :
            comments[m].entryId \in DOMAIN entries /\ comments[m].userId \in DOMAIN users
    /\ \A k \in DOMAIN likes : likes[k] > 0 => (k[1] \in DOMAIN entries /\ k[2] \in DOMAIN users)

\* C11: in every reachable state, deletions of users and entries included, no
\* entry, image, report, comment or like names a user or an entry that is
\* not stored.
C11_ReferentialIntegrity == ReferentialIntegrity

\* the author has just been deleted after an entry was posted and a comment,
\* a report and an image were stored; nothing of them is left
C11_Witness ==
    /\ resp.op = "deleteUser" /\ resp.code = 200 /\ resp.id = "u1"
    /\ nextEntryId > 1 /\ entries = EmptyRec
    /\ serial.comments > 0 /\ comments = EmptyRec
    /\ serial.reports > 0 /\ reports = EmptyRec
    /\ serial.images > 0

\* C12: an edit, a special toggle or a delete of a stored entry asked by a
\* signed-in user who is neither its owner nor admin / moderator is answered
\* 403 at once and leaves every entry as it was, the entry still stored.
C12_NonOwnerForbidden ==
    [][(/\ resp'.op \in {"edit", "setSpecial", "delete"}
        /\ resp'.caller \in DOMAIN users /\ ~HasModerateCapability(resp'.caller)
        /\ resp'.id \in DOMAIN entries /\ entries[resp'.id].userId # resp'.caller)
          => (resp'.code = 403 /\ entries' = entries /\ procs' = procs)]_vars

\* a plain user was refused the delete of somebody else's approved entry
C12_Witness ==
    /\ resp.op = "delete" /\ resp.code = 403 /\ resp.caller = "u2"
    /\ resp.id \in DOMAIN entries /\ entries[resp.id].status = "approved"

\* C13: an owner edit, owner delete, special toggle, moderation, verification
\* or admin delete that names an id under which no entry is stored, and is
\* not refused for its caller or its input, is answered 404 and leaves the
\* entries as they were.
C13_MissingEntryNotFound ==
    [][(/\ resp'.op \in {"edit", "delete", "setSpecial", "moderate", "verify", "adminDelete"}
        /\ resp'.code \notin {400, 401, 403}
        /\ resp'.id \notin DOMAIN entries)
          => (resp'.code = 404 /\ entries' = entries)]_vars

\* C14: a request of an admin or moderator to set a status, verification,
\* role or badge outside its enumeration is answered 400 and writes nothing.
C14_InvalidValueRejected ==
    [][/\ (resp'.op = "moderate" /\ isAdmin(users, resp'.caller)) =>
            \A st \in ModerateInputs \ StatusEnum :
                ModerateRoute(resp'.caller, resp'.id, st)
                    => (resp'.code = 400 /\ entries' = entries)
       /\ (resp'.op = "verify" /\ isAdmin(users, resp'.caller)) =>
            \A v \in VerifyInputs \ VerificationEnum :
                VerifyRoute(resp'.caller, resp'.id, v)
                    => (resp'.code = 400 /\ entries' = entries)
       /\ (resp'.op = "role" /\ isAdmin(users, resp'.caller)) =>
            \A role \in RoleInputs \ RoleEnum :
                RoleRoute(resp'.caller, resp'.id, role)
                    => (resp'.code = 400 /\ users' = users)
       /\ (resp'.op = "badge" /\ isAdmin(users, resp'.caller)) =>
            \A badge \in BadgeInputs \ BadgeEnum :
                BadgeRoute(resp'.caller, resp'.id, badge)
                    => (resp'.code = 400 /\ users' = users)]_vars

\* a moderator's request for a role was answered 400 while the user named
\* holds a role and a badge that were set before
C14_Witness ==
    /\ resp.op = "role" /\ resp.code = 400 /\ resp.id = "u2"
    /\ users["u2"].role = "moderator" /\ users["u2"].badge = "green_check"

\* C15: the approved listing returns the stored entries whose status is
\* approved and whose owner exists, each as it is stored, and nothing else.
C15_ApprovedListing ==
    resp.op = "approved" =>
        /\ {e.id : e \in resp.body}
              = {i \in DOMAIN entries :
                    entries[i].status = "approved" /\ entries[i].userId \in DOMAIN users}
        /\ \A e \in resp.body :
              /\ e.status = "approved"
              /\ Pick(e, DOMAIN entries[e.id]) = entries[e.id]
              /\ e.user = users[e.userId]

\* the listing returned one entry while another, pending or rejected, is stored
C15_Witness ==
    /\ resp.op = "approved" /\ Cardinality(resp.body) = 1
    /\ \E i \in DOMAIN entries : entries[i].status \in {"pending", "rejected"}

\* C16: the stored verification of an entry changes, or starts away from
\* unknown, only in a step of the admin verification route.
C16_VerificationAdminOnly ==
    [][\A id \in EntryIds :
          (/\ id \in DOMAIN entries'
           /\ entries'[id].verification
                # (IF id \in DOMAIN entries THEN entries[id].verification ELSE "unknown"))
             => resp'.op = "verify"]_vars

\* C17: a ban check that compares at the very instant bannedUntil names
\* returns not banned and leaves the ban fields cleared.
C17_BoundaryExpired ==
    (/\ resp.op = "checkBan" /\ resp.user # << >>
     /\ resp.user[1].isBanned
     /\ resp.user[1].bannedUntil.kind = "date" /\ resp.user[1].bannedUntil.t = resp.at)
        => /\ resp.ret = FALSE
           /\ resp.id \in DOMAIN users =>
                  /\ users[resp.id].isBanned = FALSE
                  /\ users[resp.id].banReason = Null
                  /\ users[resp.id].bannedUntil = NullDate

\* the ban fields of a row are those of a user who is not banned
Cleared(user) == ~user.isBanned /\ user.banReason = Null /\ user.bannedUntil = NullDate

\* the row a ban check read shows a timed ban over at the instant it compared
ReadExpired(r) ==
    /\ r.user # << >> /\ r.user[1].isBanned
    /\ r.user[1].bannedUntil.kind = "date" /\ r.user[1].bannedUntil.t < r.at

\* C18: a ban check that read an expired timed ban, or the record already
\* cleared, returns not banned; when the stored record is already cleared
\* as it returns, the users table is left as it is; and a check that read
\* the cleared record returns from its tests, without the clearing write.
C18_CheckIdempotent ==
    [][(resp'.op = "checkBan" /\ resp'.user # << >>) =>
          /\ (ReadExpired(resp') \/ ~resp'.user[1].isBanned) =>
                /\ resp'.ret = FALSE
                /\ (resp'.id \in DOMAIN users /\ Cleared(users[resp'.id])) => users' = users
                /\ (ReadExpired(resp') /\ resp'.id \in DOMAIN users')
                        => Cleared(users'[resp'.id])
          /\ ~resp'.user[1].isBanned =>
                \E p \in Procs : procs[p].op = "checkBan" /\ procs[p].pc = "decide"
                                   /\ procs'[p] = Idle]_vars

\* one check has cleared an expired ban and returned while another, which
\* read the same expired ban, is about to clear it again
C18_Witness ==
    /\ resp.op = "checkBan" /\ ReadExpired(resp) /\ resp.ret = FALSE
    /\ resp.id \in DOMAIN users /\ Cleared(users[resp.id])
    /\ \E p \in Procs : /\ procs[p].op = "checkBan" /\ procs[p].pc = "unbanUser"
                         /\ procs[p].id = resp.id /\ procs[p].user = resp.user

\* C19: a moderation answered 200 changes the status of the entry it names
\* and nothing else in the store; a moderation answered otherwise changes
\* nothing.
C19_ModerationFrame ==
    [][resp'.op = "moderate" =>
          /\ UNCHANGED <<users, likes, comments, reports, images>>
          /\ DOMAIN entries' = DOMAIN entries
          /\ \A i \in DOMAIN entries :
                IF i = resp'.id /\ resp'.code = 200
                THEN \E st \in StatusEnum : entries'[i] = [entries[i] EXCEPT !.status = st]
                ELSE entries'[i] = entries[i]]_vars

\* a special, verified entry has just been rejected while another entry is stored
C19_Witness ==
    /\ resp.op = "moderate" /\ resp.code = 200
    /\ entries[resp.id].status = "rejected" /\ entries[resp.id].isSpecial
    /\ entries[resp.id].verification = "verified"
    /\ \E i \in DOMAIN entries : i # resp.id /\ entries[i].status = "approved"

\* C20: the verification route never changes a status and sets the
\* verification it was asked for; the moderation route never changes a
\* verification and sets the status it was asked for.
C20_StatusVerificationIndependent ==
    [][/\ resp'.op = "verify" =>
            /\ DOMAIN entries' = DOMAIN entries
            /\ \A i \in DOMAIN entries : entries'[i].status = entries[i].status
            /\ \A v \in VerificationEnum :
                  (resp'.code = 200 /\ VerifyRoute(resp'.caller, resp'.id, v))
                      => entries'[resp'.id].verification = v
       /\ resp'.op = "moderate" =>
            /\ DOMAIN entries' = DOMAIN entries
            /\ \A i \in DOMAIN entries : entries'[i].verification = entries[i].verification
            /\ \A st \in StatusEnum :
                  (resp'.code = 200 /\ ModerateRoute(resp'.caller, resp'.id, st))
                      => entries'[resp'.id].status = st]_vars

\* an approved entry has just been marked verified and is still approved
C20_Witness ==
    /\ resp.op = "verify" /\ resp.code = 200
    /\ entries[resp.id].verification = "verified" /\ entries[resp.id].status = "approved"

\* C21: no status is terminal.  Whatever the status of a stored entry, a
\* moderation request of a moderator can take it to approved and to rejected,
\* and it can be taken to pending by a moderation request or by the last
\* step of an owner edit in flight; an owner edit can be started on it
\* whenever a request slot is free.
C21_NoTerminalStatus ==
    \A id \in DOMAIN entries :
        /\ \A st \in {"approved", "rejected"} \ {entries[id].status} :
              ENABLED (\E c \in UserIds : ModerateRoute(c, id, st) /\ entries'[id].status = st)
        /\ entries[id].status # "pending" =>
              \/ ENABLED (\E c \in UserIds :
                             ModerateRoute(c, id, "pending") /\ entries'[id].status = "pending")
              \/ \E p \in EntryProcs :
                    /\ procs[p].op = "edit" /\ procs[p].id = id
                    /\ ENABLED (EditModerate(p) /\ entries'[id].status = "pending")
        /\ (\E p \in EntryProcs : Free(p)) =>
              ENABLED (\E p \in EntryProcs : EditStart(p, entries[id].userId, id, [title |-> "t2"])
                                               /\ procs'[p].op = "edit")

\* an owner edit has just taken a rejected entry back to pending
C21_Witness ==
    /\ resp.op = "edit" /\ resp.code = 200
    /\ resp.body[1].status = "rejected"
    /\ resp.id \in DOMAIN entries /\ entries[resp.id].status = "pending"
    /\ ENABLED (ModerateRoute("u3", resp.id, "approved") /\ entries'[resp.id].status = "approved")

\* C22: the owner edit is all-or-nothing with respect to status: the store
\* never holds an entry that carries the new field values of an edit while
\* its status is still approved.
C22_EditAllOrNothing ==
    \A p \in EntryProcs :
        (/\ procs[p].op = "edit" /\ procs[p].pc = "moderateEntry"
         /\ procs[p].data # EmptyRec
         /\ procs[p].id \in DOMAIN entries
         /\ entries[procs[p].id] = procs[p].entry[1])
            => entries[procs[p].id].status # "approved"

\* the tokens randomBytes(32).toString('hex') can give
GeneratedTokens == {toHex(randomBytes(TokenBytes, seed)) : seed \in 1..MaxSeed}

\* the request asks for isSpecial = true
SetsSpecial(d) == "isSpecial" \in DOMAIN d /\ d.isSpecial

\* C23: every toggle request that sets isSpecial to true generates a token,
\* whatever the entry holds, and stores it in place of the previous one, after
\* which the special fetch refuses every other token, the previous one
\* included; a toggle request that sets isSpecial to false writes no token
\* and leaves the stored one as it was.
C23_TokenReissued ==
    [][/\ \A p \in EntryProcs :
            (procs[p] = Idle /\ procs'[p].op = "setSpecial") =>
                LET d == procs'[p].data
                IN IF SetsSpecial(d)
                   THEN "specialAccessToken" \in DOMAIN d /\ d.specialAccessToken \in GeneratedTokens
                   ELSE "specialAccessToken" \notin DOMAIN d
       /\ (resp'.op = "setSpecial" /\ resp'.code = 200) =>
            \E p \in EntryProcs :
                /\ procs[p].op = "setSpecial" /\ procs'[p] = Idle
                /\ LET d == procs[p].data
                       id == resp'.id
                   IN IF SetsSpecial(d)
                      THEN /\ "specialAccessToken" \in DOMAIN d
                           /\ entries'[id].isSpecial
                           /\ entries'[id].specialAccessToken = d.specialAccessToken
                           /\ \A t \in QueryTokens \cup {entries[id].specialAccessToken} :
                                 t # d.specialAccessToken
                                    => getSpecialPost(entries', id, t) = << >>
                      ELSE entries'[id].specialAccessToken = entries[id].specialAccessToken]_vars

\* a toggle to true has just replaced the token issued before an off / on cycle
C23_Witness ==
    /\ resp.op = "setSpecial" /\ resp.code = 200
    /\ ~resp.existingEntry.isSpecial
    /\ resp.existingEntry.specialAccessToken \in GeneratedTokens
    /\ resp.body[1].isSpecial
    /\ resp.body[1].specialAccessToken \in GeneratedTokens \ {resp.existingEntry.specialAccessToken}
    /\ getSpecialPost(entries, resp.id, resp.existingEntry.specialAccessToken) = << >>

\* C24: the delete-comment route makes no ownership check: every request
\* of a signed-in caller goes on to the DELETE statement, which removes the
\* comment named, whoever wrote it, and the request is answered 200.
C24_AnyoneDeletesComment ==
    [][/\ \A p \in Procs, c \in UserIds, id \in RequestIds(ContentRows) :
            DeleteCommentStart(p, c, id) => procs'[p].op = "deleteComment"
       /\ resp'.op = "deleteComment" /\ resp'.code # 401 =>
            /\ resp'.code = 200
            /\ resp'.deleted = RowsAt(comments, resp'.id)
            /\ comments' = deleteComment(comments, resp'.id)
            /\ resp'.id \notin DOMAIN comments']_vars

\* a comment has just been deleted by a user who did not write it
C24_Witness ==
    /\ resp.op = "deleteComment" /\ resp.code = 200
    /\ resp.deleted # << >> /\ resp.deleted[1].userId # resp.caller

\* C25: a gallery delete for an image id that is not among the caller's own
\* images is answered 403 and removes no image; one for the caller's own
\* image removes exactly that image.
C25_GalleryOwnership ==
    [][/\ \A p \in Procs :
            (procs[p] = Idle /\ procs'[p].op = "deleteImage") =>
                /\ procs'[p].id \in DOMAIN images
                /\ images[procs'[p].id].userId = procs'[p].caller
       /\ resp'.op = "deleteImage" =>
            /\ (/\ resp'.caller \in DOMAIN users
                /\ ~(resp'.id \in DOMAIN images /\ images[resp'.id].userId = resp'.caller)
                /\ ~\E p \in Procs : procs[p].op = "deleteImage" /\ procs'[p] = Idle)
                    => (resp'.code = 403 /\ images' = images)
            /\ resp'.code = 204 =>
                    /\ images' = deleteUserImage(images, resp'.id)
                    /\ \A r \in 1..Len(resp'.deleted) : resp'.deleted[r].userId = resp'.caller
            /\ resp'.code \notin {204} => images' = images]_vars

\* a user has just deleted one of two images of theirs
C25_Witness ==
    /\ resp.op = "deleteImage" /\ resp.code = 204
    /\ resp.deleted # << >>
    /\ \E r \in DOMAIN images : images[r].userId = resp.caller

\* C26: the entry a successful owner edit returns to the caller equals the
\* stored entry after the edit; its status is pending.
C26_EditReturnsStored ==
    (resp.op = "edit" /\ resp.code = 200 /\ resp.id \in DOMAIN entries)
        => (resp.body = <<entries[resp.id]>> /\ resp.body[1].status = "pending")

\* C27: the clearing write of a ban check never lifts a ban the check did
\* not see expire: when the stored record, as the check returns, is a ban
\* other than the one it read, that ban is left in force with its fields.
C27_NewBanSurvivesCheck ==
    [][(/\ resp'.op = "checkBan" /\ ReadExpired(resp')
        /\ resp'.id \in DOMAIN users
        /\ users[resp'.id].isBanned
        /\ users[resp'.id] # resp'.user[1])
            => users'[resp'.id] = users[resp'.id]]_vars

\* C28: every stored entry with isSpecial = true has a specialAccessToken
\* that is a non-empty string.
C28_SpecialHasToken ==
    \A id \in DOMAIN entries :
        entries[id].isSpecial => ~Falsy(entries[id].specialAccessToken)

\* C29: upserting a user who already exists leaves that user's role, badge,
\* isBanned, bannedUntil and banReason as they were, leaves isAdmin as it
\* was when the data carries no isAdmin value, and leaves every other user
\* untouched.
C29_UpsertKeepsPrivileges ==
    [][(resp'.op = "upsert" /\ resp'.id \in DOMAIN users) =>
          /\ resp'.id \in DOMAIN users'
          /\ \A f \in {"role", "badge", "isBanned", "bannedUntil", "banReason"} :
                users'[resp'.id][f] = users[resp'.id][f]
          /\ "isAdmin" \notin DOMAIN resp'.data =>
                users'[resp'.id].isAdmin = users[resp'.id].isAdmin
          /\ \A u \in (DOMAIN users) \ {resp'.id} : u \in DOMAIN users' /\ users'[u] = users[u]]_vars

\* a banned moderator with a badge has just logged in again, the data naming
\* another role, and is still banned
C29_Witness ==
    /\ resp.op = "upsert" /\ resp.code = 200
    /\ "role" \in DOMAIN resp.data /\ "isAdmin" \notin DOMAIN resp.data
    /\ users[resp.id].isBanned /\ users[resp.id].bannedUntil.kind = "date"
    /\ users[resp.id].role = "moderator" /\ users[resp.id].badge = "red_check"

\* C30: a user with isBanned = false has banReason = null and
\* bannedUntil = null, and a user with a bannedUntil has isBanned = true.
C30_BanFieldsConsistent ==
    \A u \in DOMAIN users :
        /\ ~users[u].isBanned => (users[u].banReason = Null /\ users[u].bannedUntil = NullDate)
        /\ users[u].bannedUntil # NullDate => users[u].isBanned

\* a ban check has just cleared a timed ban that had run out
C30_Witness ==
    /\ resp.op = "checkBan" /\ ReadExpired(resp) /\ resp.ret = FALSE
    /\ resp.id \in DOMAIN users
    /\ ~users[resp.id].isBanned /\ users[resp.id].banReason = Null

====
